---- MODULE Spec2Model ----
(***************************************************************************)
(* plou: a terminal world-map viewer.  The model covers the Viewport, the  *)
(* input handlers of App and the render loop App::run (src/src/main.rs).   *)
(*                                                                         *)
(* The four bounds of the Viewport are f64.  An f64 is modelled by its     *)
(* exact value: a sign and a magnitude counted in units of 2^-FracBits,    *)
(* the magnitude held as NumLimbs digits of LimbBits bits, least           *)
(* significant first.  Every f64 operation computes the exact result and   *)
(* rounds it to MantBits significant bits, ties to even, as IEEE-754       *)
(* binary64 does.  Every value the program computes from the default       *)
(* viewport is a multiple of 2^-54 (0.2 is 3602879701896397 * 2^-54), so   *)
(* the unit loses nothing.  The sign of zero is not modelled (-0.0 = 0.0   *)
(* in every comparison the program or a claim makes).                      *)
(***************************************************************************)
EXTENDS Integers, Sequences, FiniteSets, TLC

\* exit, viewport, last_mouse_drag_position: the fields of App.
\* pc: where App::run (or a call of Viewport::zoom) stands.
\* event: the event handle_events has read in the current iteration.
\* start: the viewport the behaviour began with.
\* steps: the argument of a direct call of Viewport::zoom.
\* drags: how many left-drag events have been handled.
\* gesture: how many of them since the last button-up event.
\* file: the lines of the dataset file the build script reads.
\* lines: the Vec<String> the build script collects from them.
\* COORDINATES: the array of points the build script generates, the dataset
\*   WorldMap::draw iterates over.
\* painter: the render target of WorldMap::draw: its point mapping, the
\*   points it has been asked about and the cells it has been told to paint.
\* origin: the drag gesture under way: the position of its first left-drag,
\*   the viewport then, moved since by the key presses and scrolls only, and
\*   whether every drag of it moved by a whole number of map units; and how
\*   many drags, of any gesture, moved by a fraction of a map unit.
VARIABLES exit, viewport, last_mouse_drag_position, pc, event, start, steps, drags,
          gesture, file, lines, COORDINATES, painter, origin

build_vars == <<file, lines, COORDINATES>>

vars == <<exit, viewport, last_mouse_drag_position, pc, event, start, steps, drags,
          gesture, build_vars, painter, origin>>

(***************************************************************************)
(* f64 arithmetic                                                          *)
(***************************************************************************)
LimbBits == 15
MantBits == 53
FracBits == 54
NumLimbs == 6

Base == 2^LimbBits
Limbs == 1..NumLimbs

MagZero == [i \in Limbs |-> 0]

MagOfLimbs(s) == [i \in Limbs |-> IF i <= Len(s) THEN s[i] ELSE 0]

\* n in 0 .. 2^31-1
MagFromNat(n) ==
    [i \in Limbs |-> IF i = 1 THEN n % Base
                     ELSE IF i = 2 THEN (n \div Base) % Base
                     ELSE IF i = 3 THEN n \div (Base * Base)
                     ELSE 0]

\* the limbs of a + b + c from limb i on, c the carry into limb i
RECURSIVE AddFrom(_, _, _, _)
AddFrom(a, b, i, c) ==
    IF i > NumLimbs THEN <<>>
    ELSE <<(a[i] + b[i] + c) % Base>> \o AddFrom(a, b, i + 1, (a[i] + b[i] + c) \div Base)

MagAdd(a, b) == AddFrom(a, b, 1, 0)

\* a >= b
\* the limbs of a - b - c from limb i on, c the borrow from limb i
RECURSIVE SubFrom(_, _, _, _)
SubFrom(a, b, i, c) ==
    IF i > NumLimbs THEN <<>>
    ELSE <<(a[i] - b[i] - c + Base) % Base>>
         \o SubFrom(a, b, i + 1, IF a[i] - b[i] - c < 0 THEN 1 ELSE 0)

MagSub(a, b) == SubFrom(a, b, 1, 0)

\* -1, 0 or 1
RECURSIVE CmpFrom(_, _, _)
CmpFrom(a, b, i) ==
    IF i = 0 THEN 0
    ELSE IF a[i] < b[i] THEN -1
    ELSE IF a[i] > b[i] THEN 1
    ELSE CmpFrom(a, b, i - 1)

MagCmp(a, b) == CmpFrom(a, b, NumLimbs)

\* d in 0 .. 2^16-1
RECURSIVE MulFrom(_, _, _, _)
MulFrom(a, d, i, c) ==
    IF i > NumLimbs THEN <<>>
    ELSE <<(a[i] * d + c) % Base>> \o MulFrom(a, d, i + 1, (a[i] * d + c) \div Base)

MagMulSmall(a, d) == MulFrom(a, d, 1, 0)

MagShiftLimbs(a, k) == [i \in Limbs |-> IF i > k THEN a[i-k] ELSE 0]

MagPow2(s) ==
    [i \in Limbs |-> IF i = (s \div LimbBits) + 1 THEN 2^(s % LimbBits) ELSE 0]

\* the number of bits of x
RECURSIVE LimbLen(_)
LimbLen(x) == IF x = 0 THEN 0 ELSE 1 + LimbLen(x \div 2)

\* the number of bits of the limbs 1..i of a
RECURSIVE BitLenFrom(_, _)
BitLenFrom(a, i) ==
    IF i = 0 THEN 0
    ELSE IF a[i] # 0 THEN (i - 1) * LimbBits + LimbLen(a[i])
    ELSE BitLenFrom(a, i - 1)

BitLen(a) == BitLenFrom(a, NumLimbs)

MagBit(a, i) == (a[(i \div LimbBits) + 1] \div 2^(i % LimbBits)) % 2

\* some bit below bit s is set
MagLowNonzero(a, s) ==
    \E i \in Limbs :
        \/ i < (s \div LimbBits) + 1 /\ a[i] # 0
        \/ i = (s \div LimbBits) + 1 /\ a[i] % 2^(s % LimbBits) # 0

\* the bits below bit s cleared
MagTruncate(a, s) ==
    [i \in Limbs |->
        IF i < (s \div LimbBits) + 1 THEN 0
        ELSE IF i = (s \div LimbBits) + 1 THEN a[i] - (a[i] % 2^(s % LimbBits))
        ELSE a[i]]

\* round to nearest, ties to even, at MantBits significant bits
RoundMag(a) ==
    IF BitLen(a) <= MantBits THEN a
    ELSE LET s == BitLen(a) - MantBits
         IN  IF MagBit(a, s-1) = 1 /\ (MagLowNonzero(a, s-1) \/ MagBit(a, s) = 1)
             THEN MagAdd(MagTruncate(a, s), MagPow2(s))
             ELSE MagTruncate(a, s)

MkF64(neg, mag) == [neg |-> neg /\ mag # MagZero, mag |-> mag]

FZero == MkF64(FALSE, MagZero)

FNeg(x) == MkF64(~x.neg, x.mag)

\* x + y, not rounded
ExactAdd(x, y) ==
    IF x.neg = y.neg THEN MkF64(x.neg, MagAdd(x.mag, y.mag))
    ELSE IF MagCmp(x.mag, y.mag) >= 0
         THEN MkF64(x.neg, MagSub(x.mag, y.mag))
         ELSE MkF64(y.neg, MagSub(y.mag, x.mag))

ExactSub(x, y) == ExactAdd(x, FNeg(y))

Round(x) == MkF64(x.neg, RoundMag(x.mag))

\* x + y in f64
FAdd(x, y) == Round(ExactAdd(x, y))

\* x - y in f64
FSub(x, y) == FAdd(x, FNeg(y))

\* x < y
FLt(x, y) ==
    IF x.neg /\ ~y.neg THEN TRUE
    ELSE IF ~x.neg /\ y.neg THEN FALSE
    ELSE IF x.neg THEN MagCmp(x.mag, y.mag) = 1
    ELSE MagCmp(x.mag, y.mag) = -1

MinI32 == -2147483647 - 1
MaxI32 == 2147483647

Abs(n) == IF n < 0 THEN -n ELSE n

\* the units of n.0: n * 2^FracBits
MagFromInt(n) ==
    IF n = MinI32 THEN MagPow2(31 + FracBits)
    ELSE MagShiftLimbs(MagMulSmall(MagFromNat(Abs(n)), 2^(FracBits % LimbBits)),
                       FracBits \div LimbBits)

\* n as f64, n an i32: exact
F(n) == MkF64(n < 0, MagFromInt(n))

\* the f64 constant 0.2 = 3602879701896397 * 2^-54
Point2 == MagOfLimbs(<<19661, 6553, 13107, 102>>)

\* f64::from(d) * 0.2, d an i32 with |d| <= 65535
TimesPoint2(d) == MkF64(d < 0, RoundMag(MagMulSmall(Point2, Abs(d))))

(***************************************************************************)
(* i32 arithmetic                                                          *)
(***************************************************************************)
\* a + b in i32, wrapping
WrappingAdd(a, b) ==
    IF b > 0 /\ a > MaxI32 - b THEN ((a - 2^30) - 2^30) + ((b - 2^30) - 2^30)
    ELSE IF b < 0 /\ a < MinI32 - b THEN ((a + 2^30) + 2^30) + ((b + 2^30) + 2^30)
    ELSE a + b

\* a * k in i32, wrapping, k > 0
RECURSIVE WrappingMul(_, _)
WrappingMul(a, k) == IF k = 1 THEN a ELSE WrappingAdd(WrappingMul(a, k - 1), a)

\* a / k in i32 (rounds toward zero), k > 0
TruncDiv(a, k) == IF a >= 0 THEN a \div k ELSE (a + k - 1) \div k

\* a * k does not fit an i32, k > 0
MulOverflows(a, k) == a > MaxI32 \div k \/ a < TruncDiv(MinI32, k)

\* a - b in i32, wrapping; the operands here are u16, so nothing wraps
WrappingSub(a, b) == WrappingAdd(a, -b)

(***************************************************************************)
(* Viewport                                                                *)
(***************************************************************************)
ZOOM_STEP_SIZE == 2
PAN_STEP_SIZE == 1

Viewport(x0, x1, y0, y1) == [min_x |-> x0, max_x |-> x1, min_y |-> y0, max_y |-> y1]

Default == Viewport(F(-180), F(180), F(-90), F(90))

\* a faulty variant of zoom: the upper bounds move the way the lower ones do
zoom_shifting(v, z) ==
    Viewport(FAdd(v.min_x, F(WrappingMul(z, ZOOM_STEP_SIZE))),
             FAdd(v.max_x, F(WrappingMul(z, ZOOM_STEP_SIZE))),
             FAdd(v.min_y, F(TruncDiv(WrappingMul(z, ZOOM_STEP_SIZE), 2))),
             FAdd(v.max_y, F(TruncDiv(WrappingMul(z, ZOOM_STEP_SIZE), 2))))

\* a faulty variant of zoom: the y bounds move by the whole step
zoom_unhalved(v, z) ==
    Viewport(FAdd(v.min_x, F(WrappingMul(z, ZOOM_STEP_SIZE))),
             FSub(v.max_x, F(WrappingMul(z, ZOOM_STEP_SIZE))),
             FAdd(v.min_y, F(WrappingMul(z, ZOOM_STEP_SIZE))),
             FSub(v.max_y, F(WrappingMul(z, ZOOM_STEP_SIZE))))

\* Viewport::zoom, the products wrapping (a build without overflow checks)
zoom(v, z) ==
    Viewport(FAdd(v.min_x, F(WrappingMul(z, ZOOM_STEP_SIZE))),
             FSub(v.max_x, F(WrappingMul(z, ZOOM_STEP_SIZE))),
             FAdd(v.min_y, F(TruncDiv(WrappingMul(z, ZOOM_STEP_SIZE), 2))),
             FSub(v.max_y, F(TruncDiv(WrappingMul(z, ZOOM_STEP_SIZE), 2))))

\* Viewport::zoom panics in a build with overflow checks
ZoomOverflows(z) == MulOverflows(z, ZOOM_STEP_SIZE)

(***************************************************************************)
(* App                                                                     *)
(***************************************************************************)
None == <<>>
Some(column, row) == <<column, row>>

App == [exit |-> exit, viewport |-> viewport,
        last_mouse_drag_position |-> last_mouse_drag_position]

AppDefault == [exit |-> FALSE, viewport |-> Default, last_mouse_drag_position |-> None]

App_exit(app) == [app EXCEPT !.exit = TRUE]

increment_zoom(app) == [app EXCEPT !.viewport = zoom(@, 1)]

decrement_zoom(app) == [app EXCEPT !.viewport = zoom(@, -1)]

\* a faulty variant of pan_up: the lower bound moves the other way
pan_up_stretching(app) ==
    [app EXCEPT !.viewport.max_y = FAdd(@, F(PAN_STEP_SIZE)),
                !.viewport.min_y = FSub(@, F(PAN_STEP_SIZE))]

pan_up(app) ==
    [app EXCEPT !.viewport.max_y = FAdd(@, F(PAN_STEP_SIZE)),
                !.viewport.min_y = FAdd(@, F(PAN_STEP_SIZE))]

\* a faulty variant of pan_left: the y bounds are moved as well
pan_left_moving_y(app) ==
    [app EXCEPT !.viewport.max_x = FSub(@, F(PAN_STEP_SIZE)),
                !.viewport.min_x = FSub(@, F(PAN_STEP_SIZE)),
                !.viewport.max_y = FSub(@, F(PAN_STEP_SIZE)),
                !.viewport.min_y = FSub(@, F(PAN_STEP_SIZE))]

pan_left(app) ==
    [app EXCEPT !.viewport.max_x = FSub(@, F(PAN_STEP_SIZE)),
                !.viewport.min_x = FSub(@, F(PAN_STEP_SIZE))]

pan_down(app) ==
    [app EXCEPT !.viewport.max_y = FSub(@, F(PAN_STEP_SIZE)),
                !.viewport.min_y = FSub(@, F(PAN_STEP_SIZE))]

pan_right(app) ==
    [app EXCEPT !.viewport.max_x = FAdd(@, F(PAN_STEP_SIZE)),
                !.viewport.min_x = FAdd(@, F(PAN_STEP_SIZE))]

\* a faulty variant of handle_key_event: 'Q' quits as 'q' does
handle_key_event_any_case(app, key_event) ==
    CASE key_event.code \in {"q", "Q"} -> App_exit(app)
      [] key_event.code = "Up" -> increment_zoom(app)
      [] key_event.code = "Down" -> decrement_zoom(app)
      [] key_event.code = "w" -> pan_up(app)
      [] key_event.code = "a" -> pan_left(app)
      [] key_event.code = "s" -> pan_down(app)
      [] key_event.code = "d" -> pan_right(app)
      [] OTHER -> app

handle_key_event(app, key_event) ==
    CASE key_event.code = "q" -> App_exit(app)
      [] key_event.code = "Up" -> increment_zoom(app)
      [] key_event.code = "Down" -> decrement_zoom(app)
      [] key_event.code = "w" -> pan_up(app)
      [] key_event.code = "a" -> pan_left(app)
      [] key_event.code = "s" -> pan_down(app)
      [] key_event.code = "d" -> pan_right(app)
      [] OTHER -> app

\* a faulty variant of drag: the x bounds follow the pointer's direction
drag_following(v, column, row, mouse_event) ==
    LET vertical_delta == TimesPoint2(WrappingSub(mouse_event.row, row))
        horizontal_delta == TimesPoint2(WrappingSub(mouse_event.column, column))
    IN  Viewport(FAdd(v.min_x, horizontal_delta), FAdd(v.max_x, horizontal_delta),
                 FAdd(v.min_y, vertical_delta), FAdd(v.max_y, vertical_delta))

\* the Drag(Left) arm with a recorded position <<column, row>>
drag(v, column, row, mouse_event) ==
    LET vertical_delta == TimesPoint2(WrappingSub(mouse_event.row, row))
        horizontal_delta == TimesPoint2(WrappingSub(mouse_event.column, column))
    IN  Viewport(FSub(v.min_x, horizontal_delta), FSub(v.max_x, horizontal_delta),
                 FAdd(v.min_y, vertical_delta), FAdd(v.max_y, vertical_delta))

\* a faulty variant of handle_mouse_event: the position recorded first is kept
handle_mouse_event_anchored(app, mouse_event) ==
    CASE mouse_event.kind = "Drag" /\ mouse_event.button = "Left" ->
            IF app.last_mouse_drag_position # None
            THEN [app EXCEPT
                    !.viewport = drag(@, app.last_mouse_drag_position[1],
                                      app.last_mouse_drag_position[2], mouse_event)]
            ELSE [app EXCEPT
                    !.last_mouse_drag_position = Some(mouse_event.column, mouse_event.row)]
      [] mouse_event.kind = "Up" -> [app EXCEPT !.last_mouse_drag_position = None]
      [] mouse_event.kind = "ScrollUp" -> increment_zoom(app)
      [] mouse_event.kind = "ScrollDown" -> decrement_zoom(app)
      [] OTHER -> app

\* a faulty variant of handle_mouse_event: the scroll directions are exchanged
handle_mouse_event_inverted(app, mouse_event) ==
    CASE mouse_event.kind = "Drag" /\ mouse_event.button = "Left" ->
            [app EXCEPT
                !.viewport =
                    IF app.last_mouse_drag_position # None
                    THEN drag(@, app.last_mouse_drag_position[1],
                              app.last_mouse_drag_position[2], mouse_event)
                    ELSE @,
                !.last_mouse_drag_position = Some(mouse_event.column, mouse_event.row)]
      [] mouse_event.kind = "Up" -> [app EXCEPT !.last_mouse_drag_position = None]
      [] mouse_event.kind = "ScrollUp" -> decrement_zoom(app)
      [] mouse_event.kind = "ScrollDown" -> increment_zoom(app)
      [] OTHER -> app

\* a faulty variant of handle_mouse_event: a button-up keeps the recorded position
handle_mouse_event_keeping(app, mouse_event) ==
    CASE mouse_event.kind = "Drag" /\ mouse_event.button = "Left" ->
            [app EXCEPT
                !.viewport =
                    IF app.last_mouse_drag_position # None
                    THEN drag(@, app.last_mouse_drag_position[1],
                              app.last_mouse_drag_position[2], mouse_event)
                    ELSE @,
                !.last_mouse_drag_position = Some(mouse_event.column, mouse_event.row)]
      [] mouse_event.kind = "ScrollUp" -> increment_zoom(app)
      [] mouse_event.kind = "ScrollDown" -> decrement_zoom(app)
      [] OTHER -> app

handle_mouse_event(app, mouse_event) ==
    CASE mouse_event.kind = "Drag" /\ mouse_event.button = "Left" ->
            [app EXCEPT
                !.viewport =
                    IF app.last_mouse_drag_position # None
                    THEN drag(@, app.last_mouse_drag_position[1],
                              app.last_mouse_drag_position[2], mouse_event)
                    ELSE @,
                !.last_mouse_drag_position = Some(mouse_event.column, mouse_event.row)]
      [] mouse_event.kind = "Up" -> [app EXCEPT !.last_mouse_drag_position = None]
      [] mouse_event.kind = "ScrollUp" -> increment_zoom(app)
      [] mouse_event.kind = "ScrollDown" -> decrement_zoom(app)
      [] OTHER -> app

\* a faulty variant of handle_events: key events of every kind are handled
handle_events_any_kind(app, ev) ==
    IF ev.type = "Key" THEN handle_key_event(app, ev)
    ELSE IF ev.type = "Mouse" THEN handle_mouse_event(app, ev)
    ELSE app

\* a faulty variant of handle_events: an event of another kind resets the view
handle_events_resetting(app, ev) ==
    IF ev.type = "Key" /\ ev.kind = "Press" THEN handle_key_event(app, ev)
    ELSE IF ev.type = "Mouse" THEN handle_mouse_event(app, ev)
    ELSE IF ev.type = "Key" THEN app
    ELSE [app EXCEPT !.viewport = Default]

\* the match of handle_events on the event read
handle_events(app, ev) ==
    IF ev.type = "Key" /\ ev.kind = "Press" THEN handle_key_event(app, ev)
    ELSE IF ev.type = "Mouse" THEN handle_mouse_event(app, ev)
    ELSE app

(***************************************************************************)
(* The events event::read can return                                       *)
(***************************************************************************)
\* "Q" stands for the key codes handle_key_event does not name
KeyCodes == {"q", "Up", "Down", "w", "a", "s", "d", "Q"}
KeyKinds == {"Press", "Repeat", "Release"}

Key(code, kind) == [type |-> "Key", code |-> code, kind |-> kind]

Mouse(kind, button, column, row) ==
    [type |-> "Mouse", kind |-> kind, button |-> button, column |-> column, row |-> row]

\* the cells the pointer visits: <<column, row>>
Cells == {<<50, 20>>, <<55, 25>>, <<51, 20>>}

\* kind and button; presses and left-drags come at every cell, the rest at one
MouseKinds == {<<"Drag", "Right">>, <<"Up", "Left">>, <<"Up", "Right">>,
               <<"ScrollUp", "None">>, <<"ScrollDown", "None">>, <<"Moved", "None">>}

KeyEvents == {Key(c, k) : c \in KeyCodes, k \in KeyKinds}
MouseEvents ==
    {Mouse("Down", "Left", c[1], c[2]) : c \in Cells}
    \cup {Mouse("Drag", "Left", c[1], c[2]) : c \in Cells}
    \cup {Mouse(m[1], m[2], 50, 20) : m \in MouseKinds}
OtherEvents == {[type |-> "Resize"], [type |-> "FocusGained"]}

Events == KeyEvents \cup MouseEvents \cup OtherEvents

NoEvent == [type |-> "None"]

IsLeftDrag(ev) == ev.type = "Mouse" /\ ev.kind = "Drag" /\ ev.button = "Left"

IsButtonUp(ev) == ev.type = "Mouse" /\ ev.kind = "Up"

(***************************************************************************)
(* The part of the state space explored: the centre of the viewport stays  *)
(* within MaxPan units of where it began, on each axis, and the viewport   *)
(* is at most zin zoom steps smaller and zout zoom steps larger than it    *)
(* began; at most MaxDrags left-drag events are handled.                   *)
(***************************************************************************)
MaxDrags == 2
MaxPan == 1
MaxZoom == 1
DeepZoom == 91

AtMost(x, n) == MagCmp(x.mag, MagFromInt(n)) <= 0

InWindow(v, zin, zout) ==
    LET dx == ExactSub(ExactAdd(v.min_x, v.max_x), ExactAdd(start.min_x, start.max_x))
        dy == ExactSub(ExactAdd(v.min_y, v.max_y), ExactAdd(start.min_y, start.max_y))
        shrunk == ExactSub(ExactSub(start.max_x, start.min_x), ExactSub(v.max_x, v.min_x))
    IN  /\ AtMost(dx, 2 * MaxPan)
        /\ AtMost(dy, 2 * MaxPan)
        /\ IF shrunk.neg THEN AtMost(shrunk, 2 * ZOOM_STEP_SIZE * zout)
                         ELSE AtMost(shrunk, 2 * ZOOM_STEP_SIZE * zin)

(***************************************************************************)
(* App::run                                                                *)
(***************************************************************************)
NoPainter == [get_point |-> <<>>, queried |-> <<>>, painted |-> <<>>]
NoOrigin == [position |-> None, viewport |-> Default, whole |-> TRUE, fractional |-> 0]

\* the build script and WorldMap::draw are not running, no gesture is followed
Idle ==
    /\ file = <<>>
    /\ lines = <<>>
    /\ COORDINATES = <<>>
    /\ painter = NoPainter
    /\ origin = NoOrigin

SetApp(app) ==
    /\ exit' = app.exit
    /\ viewport' = app.viewport
    /\ last_mouse_drag_position' = app.last_mouse_drag_position

\* a faulty variant of RunLoop: the exit flag is tested after the iteration only
RunLoop_draws_first ==
    /\ pc = "loop"
    /\ pc' = IF exit /\ event = NoEvent THEN "done" ELSE "draw"
    /\ event' = NoEvent
    /\ UNCHANGED <<exit, viewport, last_mouse_drag_position, start, steps, drags, gesture,
                 build_vars, painter, origin>>

\* while !self.exit
RunLoop ==
    /\ pc = "loop"
    /\ pc' = IF exit THEN "done" ELSE "draw"
    /\ event' = NoEvent
    /\ UNCHANGED <<exit, viewport, last_mouse_drag_position, start, steps, drags, gesture,
                 build_vars, painter, origin>>

\* terminal.draw(..)?
Draw ==
    /\ pc = "draw"
    /\ pc' = "events"
    /\ UNCHANGED <<exit, viewport, last_mouse_drag_position, event, start, steps, drags, gesture,
                 build_vars, painter, origin>>

\* a faulty variant of DrawFails: the failure resets the App before returning
DrawFails_resetting ==
    /\ pc = "draw"
    /\ pc' = "err"
    /\ SetApp(AppDefault)
    /\ UNCHANGED <<event, start, steps, drags, gesture, build_vars, painter, origin>>

\* terminal.draw(..)? failing
DrawFails ==
    /\ pc = "draw"
    /\ pc' = "err"
    /\ UNCHANGED <<exit, viewport, last_mouse_drag_position, event, start, steps, drags, gesture,
                 build_vars, painter, origin>>

\* self.handle_events()?, event::read()? failing
ReadFails ==
    /\ pc = "events"
    /\ pc' = "err"
    /\ UNCHANGED <<exit, viewport, last_mouse_drag_position, event, start, steps, drags, gesture,
                 build_vars, painter, origin>>

\* self.handle_events()?, event::read() returning ev
HandleEvents(E, zin, zout) ==
    /\ pc = "events"
    /\ \E ev \in E :
        /\ event' = ev
        /\ SetApp(handle_events(App, ev))
        /\ drags' = IF IsLeftDrag(ev) THEN drags + 1 ELSE drags
        /\ gesture' = IF IsLeftDrag(ev) THEN gesture + 1
                      ELSE IF IsButtonUp(ev) THEN 0 ELSE gesture
    /\ drags' <= MaxDrags
    /\ viewport' = viewport \/ InWindow(viewport', zin, zout)
    /\ pc' = "loop"
    /\ UNCHANGED <<start, steps, build_vars, painter, origin>>

Init ==
    /\ exit = AppDefault.exit
    /\ viewport = AppDefault.viewport
    /\ last_mouse_drag_position = AppDefault.last_mouse_drag_position
    /\ pc = "loop"
    /\ event = NoEvent
    /\ start = Default
    /\ steps = 0
    /\ drags = 0
    /\ gesture = 0
    /\ Idle

Next ==
    \/ RunLoop
    \/ Draw
    \/ DrawFails
    \/ ReadFails
    \/ HandleEvents(Events, MaxZoom, MaxZoom)

Spec == Init /\ [][Next]_vars

\* the same program, the input source yielding key events only
NextKeys ==
    \/ RunLoop
    \/ Draw
    \/ DrawFails
    \/ ReadFails
    \/ HandleEvents(KeyEvents, DeepZoom, MaxZoom)

SpecKeys == Init /\ [][NextKeys]_vars

(***************************************************************************)
(* The program begun from a viewport it can have reached.                  *)
(***************************************************************************)
KeyPress(code) == Key(code, "Press")

\* the App after handling the event ev n times over
RECURSIVE Repeat(_, _, _)
Repeat(app, ev, n) ==
    IF n = 0 \/ handle_events(app, ev) = app THEN app
    ELSE Repeat(handle_events(app, ev), ev, n - 1)

\* a left-drag from (50, 20) to (50, 21): the viewport moves by 0.2 on y
DraggedOneRow ==
    handle_events(handle_events(AppDefault, Mouse("Drag", "Left", 50, 20)),
                  Mouse("Drag", "Left", 50, 21))

\* {-128, 128, -0.8, 127.2}: max_y is one pan below 128
NearBinade == Repeat(Repeat(DraggedOneRow, KeyPress("Up"), 26), KeyPress("w"), 63).viewport

\* {-254, 254, -126.8, 127.2}: max_y is one zoom-out below 128
ZoomedOut == Repeat(DraggedOneRow, KeyPress("Down"), 37).viewport

\* {-100, 100, -50, 50}
ZoomedIn == Repeat(AppDefault, KeyPress("Up"), 40).viewport

StartViewports == {Default, NearBinade, ZoomedIn}

InitFrom ==
    /\ exit = FALSE
    /\ viewport \in StartViewports
    /\ last_mouse_drag_position = None
    /\ pc = "loop"
    /\ event = NoEvent
    /\ start = viewport
    /\ steps = 0
    /\ drags = 0
    /\ gesture = 0
    /\ Idle

NextFrom ==
    \/ RunLoop
    \/ Draw
    \/ DrawFails
    \/ ReadFails
    \/ HandleEvents(KeyEvents, MaxZoom, MaxZoom)

SpecFrom == InitFrom /\ [][NextFrom]_vars

(***************************************************************************)
(* Viewport::zoom called directly: zoom(steps), then zoom(-steps).         *)
(***************************************************************************)
ZoomViewports == {Default, NearBinade, ZoomedOut, ZoomedIn}

\* 2^30 - 1 is the largest steps whose product fits an i32
ZoomSteps == {0, 1, -1, 2, -7, 45, 2^30 - 1, 2^30, -(2^30), -(2^30) - 1, MaxI32, MinI32}

\* one call of Viewport::zoom(z); a build with overflow checks panics where
\* z * ZOOM_STEP_SIZE overflows, a build without them wraps
ZoomCall(z, next) ==
    \E overflow_checks \in BOOLEAN :
        IF overflow_checks /\ ZoomOverflows(z)
        THEN pc' = "panicked" /\ UNCHANGED viewport
        ELSE pc' = next /\ viewport' = zoom(viewport, z)

ZoomThere ==
    /\ pc = "zoom"
    /\ ZoomCall(steps, "back")
    /\ UNCHANGED <<exit, last_mouse_drag_position, event, start, steps, drags, gesture,
                 build_vars, painter, origin>>

\* -steps is no i32 for steps = MinI32
ZoomBack ==
    /\ pc = "back"
    /\ steps # MinI32
    /\ ZoomCall(-steps, "returned")
    /\ UNCHANGED <<exit, last_mouse_drag_position, event, start, steps, drags, gesture,
                 build_vars, painter, origin>>

InitZoom ==
    /\ exit = FALSE
    /\ viewport \in ZoomViewports
    /\ last_mouse_drag_position = None
    /\ pc = "zoom"
    /\ event = NoEvent
    /\ start = viewport
    /\ steps \in ZoomSteps
    /\ drags = 0
    /\ gesture = 0
    /\ Idle

NextZoom == ZoomThere \/ ZoomBack

SpecZoom == InitZoom /\ [][NextZoom]_vars

(***************************************************************************)
(* Claims                                                                  *)
(***************************************************************************)

\* C1: from the default viewport, after any sequence of input events,
\* min_x < max_x and min_y < max_y.
C1_ViewportOrdered ==
    FLt(viewport.min_x, viewport.max_x) /\ FLt(viewport.min_y, viewport.max_y)

\* n * k as f64, exactly (no i32 in between), k > 0
FTimes(n, k) == MkF64(n < 0, MagMulSmall(MagFromInt(n), k))

\* C2: zoom(n) followed by zoom(-n) leaves all four bounds exactly as they
\* were, for every i32 n and every viewport.
C2_ZoomRoundTrip == pc = "returned" => viewport = start

\* C3: zoom(steps) adds steps*ZOOM_STEP_SIZE to min_x, subtracts it from
\* max_x, adds half of it to min_y and subtracts half of it from max_y;
\* zoom(1) from the default yields {-178, 178, -89, 89}.
C3_ZoomAddsSteps ==
    /\ pc = "back" =>
            viewport = Viewport(FAdd(start.min_x, FTimes(steps, ZOOM_STEP_SIZE)),
                                FSub(start.max_x, FTimes(steps, ZOOM_STEP_SIZE)),
                                FAdd(start.min_y, F(steps)),
                                FSub(start.max_y, F(steps)))
    /\ pc = "back" /\ steps = 1 /\ start = Default =>
            viewport = Viewport(F(-178), F(178), F(-89), F(89))

\* the step in which handle_events handles the event it has read
Handled == pc = "events" /\ pc' = "loop"

IsPanPress(ev) == ev.type = "Key" /\ ev.kind = "Press" /\ ev.code \in {"w", "a", "s", "d"}

\* max_x - min_x and max_y - min_y, as f64
Width(v) == FSub(v.max_x, v.min_x)
Height(v) == FSub(v.max_y, v.min_y)

\* max_x - min_x and max_y - min_y, exactly
ExactWidth(v) == ExactSub(v.max_x, v.min_x)
ExactHeight(v) == ExactSub(v.max_y, v.min_y)

\* x is an integer of magnitude below 2^52
IsInteger(x) == ~MagLowNonzero(x.mag, FracBits) /\ BitLen(x.mag) <= FracBits + 52

Integral(v) ==
    IsInteger(v.min_x) /\ IsInteger(v.max_x) /\ IsInteger(v.min_y) /\ IsInteger(v.max_y)

C5_PanFrame ==
    [][Handled /\ IsPanPress(event') =>
            /\ exit' = exit
            /\ last_mouse_drag_position' = last_mouse_drag_position
            /\ event'.code \in {"a", "d"} =>
                    viewport'.min_y = viewport.min_y /\ viewport'.max_y = viewport.max_y
            /\ event'.code \in {"w", "s"} =>
                    viewport'.min_x = viewport.min_x /\ viewport'.max_x = viewport.max_x
            /\ event'.code = "a" /\ viewport = Default =>
                    viewport' = Viewport(F(-181), F(179), F(-90), F(90))]_vars

C5_Witness ==
    /\ pc = "loop"
    /\ event = KeyPress("a")
    /\ viewport = Viewport(F(-181), F(179), F(-90), F(90))

IsLeftDown(ev) == ev.type = "Mouse" /\ ev.kind = "Down" /\ ev.button = "Left"

\* C6: with no drag position recorded, a left-button-down at (c0, r0)
\* records (c0, r0) as the drag position, the position the following
\* left-drag takes its delta from.
C6_PressRecordsPosition ==
    [][Handled /\ IsLeftDown(event') /\ last_mouse_drag_position = None =>
            last_mouse_drag_position' = Some(event'.column, event'.row)]_vars

\* C7: a button-up clears the recorded drag position; the first left-drag
\* after a button-up, whatever events other than left-drags came between,
\* leaves the four bounds as they were and records its own position; a
\* position is recorded only between a left-drag and the next button-up.
C7_ReleaseClearsDrag ==
    [][/\ Handled /\ IsButtonUp(event') => last_mouse_drag_position' = None
       /\ Handled /\ IsLeftDrag(event') /\ gesture = 0 =>
            /\ viewport' = viewport
            /\ last_mouse_drag_position' = Some(event'.column, event'.row)
       /\ last_mouse_drag_position' # None <=> gesture' > 0]_vars

\* a left-drag, a button-up, and a second left-drag at another cell, which
\* has recorded its position and moved nothing
C7_Witness ==
    /\ pc = "loop"
    /\ event = Mouse("Drag", "Left", 55, 25)
    /\ drags = 2
    /\ gesture = 1
    /\ viewport = Default
    /\ last_mouse_drag_position = Some(55, 25)

\* C8: a press of 'q' sets the exit flag; once it has been processed the
\* loop draws no frame and reads no event: App::run returns.
C8_QuitStopsLoop ==
    [][/\ Handled /\ event' = KeyPress("q") => exit'
       /\ exit => pc' \notin {"draw", "events", "err"}
       /\ exit /\ pc = "loop" => pc' = "done"]_vars

C8_Witness == pc = "done" /\ exit

\* C9: only a press of 'q' sets the exit flag, and nothing clears it; no
\* other key, no mouse event and no other event changes it, and App::run
\* returns Ok only with the flag set.
C9_OnlyQuitSetsExit ==
    [][/\ exit' # exit => Handled /\ event' = KeyPress("q") /\ exit'
       /\ pc' = "done" => exit']_vars

C9_Witness == pc = "loop" /\ event = KeyPress("q") /\ exit

\* C10: a key event whose kind is not Press leaves the viewport, the exit
\* flag and the drag state as they were, whatever the key.
C10_OnlyPressActs ==
    [][Handled /\ event'.type = "Key" /\ event'.kind # "Press" =>
            UNCHANGED <<viewport, exit, last_mouse_drag_position>>]_vars

C10_Witness ==
    /\ pc = "loop"
    /\ event \in {Key("q", "Release"), Key("q", "Repeat")}
    /\ ~exit
    /\ viewport # Default
    /\ last_mouse_drag_position # None

\* the events the handlers name an arm for
Recognized(ev) ==
    \/ ev.type = "Key" /\ ev.kind = "Press"
                       /\ ev.code \in {"q", "Up", "Down", "w", "a", "s", "d"}
    \/ IsLeftDrag(ev)
    \/ IsButtonUp(ev)
    \/ ev.type = "Mouse" /\ ev.kind \in {"ScrollUp", "ScrollDown"}

\* C11: an event that is not a press of q, Up, Down, w, a, s or d, nor a
\* left-drag, a button-up or a scroll, is handled without error (the loop
\* goes on to its next iteration) and leaves the viewport, the exit flag
\* and the drag position as they were.
C11_UnrecognizedIsNoOp ==
    [][pc = "events" /\ event' # NoEvent /\ ~Recognized(event') =>
            /\ pc' = "loop"
            /\ UNCHANGED <<viewport, exit, last_mouse_drag_position>>]_vars

\* a left-button-down handled in the middle of a drag, after the view moved
C11_Witness ==
    /\ pc = "loop"
    /\ event = Mouse("Down", "Left", 55, 25)
    /\ last_mouse_drag_position = Some(50, 20)
    /\ viewport # Default
    /\ ~exit

(***************************************************************************)
(* main: the terminal is set up, App::run runs, the terminal is restored   *)
(* and the result of App::run is returned.  pc: "main" before tui::init,   *)
(* "init_err" when it failed, "done" and "err" when App::run has returned  *)
(* Ok and Err, "restored_ok" and "restored_err" once tui::restore has been *)
(* called, "returned_ok" and "returned_err" when main has returned.        *)
(***************************************************************************)
\* color_eyre::install()? and tui::init()? succeed; App::default().run(..)
TuiInit ==
    /\ pc = "main"
    /\ pc' = "loop"
    /\ UNCHANGED <<exit, viewport, last_mouse_drag_position, event, start, steps, drags, gesture,
                 build_vars, painter, origin>>

\* color_eyre::install()? or tui::init()? fails: main returns the error
TuiInitFails ==
    /\ pc = "main"
    /\ pc' = "init_err"
    /\ UNCHANGED <<exit, viewport, last_mouse_drag_position, event, start, steps, drags, gesture,
                 build_vars, painter, origin>>

\* a faulty variant of TuiRestore: the error of App::run is returned at once
TuiRestore_skipped_on_error ==
    /\ pc \in {"done", "err"}
    /\ pc' = IF pc = "done" THEN "restored_ok" ELSE "returned_err"
    /\ UNCHANGED <<exit, viewport, last_mouse_drag_position, event, start, steps, drags, gesture,
                 build_vars, painter, origin>>

\* if let Err(err) = tui::restore() { eprintln!(..) }: whether the call
\* succeeds or fails, main goes on with app_result
TuiRestore ==
    /\ pc \in {"done", "err"}
    /\ pc' = IF pc = "done" THEN "restored_ok" ELSE "restored_err"
    /\ UNCHANGED <<exit, viewport, last_mouse_drag_position, event, start, steps, drags, gesture,
                 build_vars, painter, origin>>

\* app_result
MainReturns ==
    /\ pc \in {"restored_ok", "restored_err"}
    /\ pc' = IF pc = "restored_ok" THEN "returned_ok" ELSE "returned_err"
    /\ UNCHANGED <<exit, viewport, last_mouse_drag_position, event, start, steps, drags, gesture,
                 build_vars, painter, origin>>

InitMain ==
    /\ exit = AppDefault.exit
    /\ viewport = AppDefault.viewport
    /\ last_mouse_drag_position = AppDefault.last_mouse_drag_position
    /\ pc = "main"
    /\ event = NoEvent
    /\ start = Default
    /\ steps = 0
    /\ drags = 0
    /\ gesture = 0
    /\ Idle

NextMain ==
    \/ TuiInit
    \/ TuiInitFails
    \/ RunLoop
    \/ Draw
    \/ DrawFails
    \/ ReadFails
    \/ HandleEvents(KeyEvents, MaxZoom, MaxZoom)
    \/ TuiRestore
    \/ MainReturns

SpecMain == InitMain /\ [][NextMain]_vars

\* C12: once terminal setup has succeeded, on every path by which the
\* program stops (quit, draw failure, event-read failure) tui::restore is
\* called before main returns, and main returns the result of App::run.
C12_RestoreBeforeReturn ==
    [][/\ pc \in {"done", "err"} /\ pc' # pc => pc' \in {"restored_ok", "restored_err"}
       /\ pc' \in {"returned_ok", "returned_err"} /\ pc' # pc =>
            pc \in {"restored_ok", "restored_err"}
       /\ pc' = "returned_ok" => pc \in {"restored_ok", "returned_ok"}]_vars

\* main has returned the error of a failed draw or read, the view having moved
C12_Witness == pc = "returned_err" /\ viewport # Default

(***************************************************************************)
(* WorldMap::draw (src/src/map.rs): one frame.  The painter is the render  *)
(* target: get_point maps a point of the dataset to a cell of the grid or  *)
(* to None, paint colours a cell.  The mapping is the painter's own and is *)
(* any function; the model records the calls the painter receives.         *)
(***************************************************************************)
MaxPoints == 3

\* the points a dataset holds, <<x, y>>
Points == {<<-10, 5>>, <<0, 0>>, <<200, 95>>}

\* the cells of the painter's grid, <<x, y>>
GridCells == {<<0, 0>>, <<3, 1>>}

Datasets == UNION {[1..n -> Points] : n \in 0..MaxPoints}

\* for (x, y) in self.resolution.data(): the next point, when one is left
HasNext == Len(painter.queried) < Len(COORDINATES)
NextPoint == COORDINATES[Len(painter.queried) + 1]

\* a faulty variant of DrawPoint: the cell is painted without the test
DrawPoint_unchecked ==
    /\ pc = "shape"
    /\ HasNext
    /\ painter' = [painter EXCEPT
            !.queried = Append(@, NextPoint),
            !.painted = Append(@, IF painter.get_point[NextPoint] # None
                                  THEN painter.get_point[NextPoint]
                                  ELSE <<0, 0>>)]
    /\ UNCHANGED <<exit, viewport, last_mouse_drag_position, pc, event, start, steps,
                   drags, gesture, build_vars, origin>>

\* if let Some((x, y)) = painter.get_point(*x, *y) { painter.paint(x, y, ..) }
DrawPoint ==
    /\ pc = "shape"
    /\ HasNext
    /\ painter' = [painter EXCEPT
            !.queried = Append(@, NextPoint),
            !.painted = IF painter.get_point[NextPoint] # None
                        THEN Append(@, painter.get_point[NextPoint])
                        ELSE @]
    /\ UNCHANGED <<exit, viewport, last_mouse_drag_position, pc, event, start, steps,
                   drags, gesture, build_vars, origin>>

\* the iterator is exhausted: draw returns
DrawReturns ==
    /\ pc = "shape"
    /\ ~HasNext
    /\ pc' = "drawn"
    /\ UNCHANGED <<exit, viewport, last_mouse_drag_position, event, start, steps,
                   drags, gesture, build_vars, painter, origin>>

InitDraw ==
    /\ exit = FALSE
    /\ viewport = Default
    /\ last_mouse_drag_position = None
    /\ pc = "shape"
    /\ event = NoEvent
    /\ start = Default
    /\ steps = 0
    /\ drags = 0
    /\ gesture = 0
    /\ file = <<>>
    /\ lines = <<>>
    /\ COORDINATES \in Datasets
    /\ \E m \in [Points -> GridCells \cup {None}] :
            painter = [get_point |-> m, queried |-> <<>>, painted |-> <<>>]
    /\ origin = NoOrigin

NextDraw == DrawPoint \/ DrawReturns

SpecDraw == InitDraw /\ [][NextDraw]_vars

\* the cells get_point returns for the points of data that map to a cell
RECURSIVE CellsOf(_, _)
CellsOf(data, get_point) ==
    IF data = <<>> THEN <<>>
    ELSE IF get_point[Head(data)] # None
         THEN <<get_point[Head(data)]>> \o CellsOf(Tail(data), get_point)
         ELSE CellsOf(Tail(data), get_point)

\* C13: in one frame WorldMap::draw asks the painter about every point of
\* the dataset, in dataset order, and paints exactly the cells returned for
\* the points that map to a cell, in that order; the dataset and the
\* painter's mapping are not modified.
C13_DrawPaintsEveryPoint ==
    [][/\ pc' = "drawn" =>
            /\ painter'.queried = COORDINATES'
            /\ painter'.painted = CellsOf(COORDINATES', painter'.get_point)
       /\ COORDINATES' = COORDINATES
       /\ painter'.get_point = painter.get_point]_vars

\* a frame of three points of which the second maps to no cell
C13_Witness ==
    /\ pc = "drawn"
    /\ Len(COORDINATES) = MaxPoints
    /\ painter.get_point[COORDINATES[2]] = None
    /\ Len(painter.painted) = 2
    /\ painter.painted[1] # painter.painted[2]

(***************************************************************************)
(* The build script (src/build.rs) generates COORDINATES from the dataset  *)
(* file.  A line of the file is a sequence of tokens: Ws, a run of white   *)
(* space, a numeral, or a word that is no number.  A numeral is held by    *)
(* its value in units of 10^-11 (Num(12) is 0.00000000012).                *)
(***************************************************************************)
MaxLines == 3

Ws == [kind |-> "ws", value |-> 0]
Num(v) == [kind |-> "num", value |-> v]
Word == [kind |-> "word", value |-> 0]

\* an empty line, a line of white space, three records, a line of one
\* field and a line whose first field is no number
FileLines ==
    {<<>>, <<Ws>>, <<Num(12), Ws, Num(-18)>>, <<Ws, Num(300), Ws, Num(0), Ws>>,
     <<Num(0), Ws, Num(12), Ws, Num(300)>>, <<Num(300)>>, <<Word, Ws, Num(12)>>}

Files == UNION {[1..n -> FileLines] : n \in 0..MaxLines}

\* String::is_empty
is_empty(line) == line = <<>>

\* str::split_whitespace, collected
split_whitespace(line) == SelectSeq(line, LAMBDA t : t # Ws)

\* str::parse::<f64> succeeds
Parses(t) == t.kind = "num"

\* the f64 it yields
parse(t) == t.value

\* format!("{:.10}", v): v rounded to ten decimals
Format10(v) == IF v < 0 THEN -(((-v + 5) \div 10) * 10) ELSE ((v + 5) \div 10) * 10

\* the lines the reader yields that pass filter(|l| !l.is_empty())
RECURSIVE Filter(_)
Filter(ls) ==
    IF ls = <<>> THEN <<>>
    ELSE IF is_empty(Head(ls)) THEN Filter(Tail(ls))
    ELSE <<Head(ls)>> \o Filter(Tail(ls))

\* File::open(..).expect(..) succeeds
OpenFile ==
    /\ pc = "open"
    /\ pc' = "read"
    /\ UNCHANGED <<exit, viewport, last_mouse_drag_position, event, start, steps,
                   drags, gesture, build_vars, painter, origin>>

\* File::open(..).expect(..) panics: there is no such file
OpenFails ==
    /\ pc = "open"
    /\ pc' = "no_file"
    /\ UNCHANGED <<exit, viewport, last_mouse_drag_position, event, start, steps,
                   drags, gesture, build_vars, painter, origin>>

\* reader.lines().filter(..).collect()
ReadLines ==
    /\ pc = "read"
    /\ lines' = Filter(file)
    /\ pc' = "format"
    /\ UNCHANGED <<exit, viewport, last_mouse_drag_position, event, start, steps,
                   drags, gesture, file, COORDINATES, painter, origin>>

\* one turn of for line in lines: parts[0] and parts[1] parsed and written
\* with ten decimals; an index out of bounds or a failed parse panics
FormatLine ==
    /\ pc = "format"
    /\ Len(COORDINATES) < Len(lines)
    /\ LET parts == split_whitespace(lines[Len(COORDINATES) + 1])
       IN  IF Len(parts) >= 2 /\ Parses(parts[1]) /\ Parses(parts[2])
           THEN /\ COORDINATES' = Append(COORDINATES,
                                         <<Format10(parse(parts[1])),
                                           Format10(parse(parts[2]))>>)
                /\ pc' = pc
           ELSE /\ pc' = "panicked"
                /\ UNCHANGED COORDINATES
    /\ UNCHANGED <<exit, viewport, last_mouse_drag_position, event, start, steps,
                   drags, gesture, file, lines, painter, origin>>

\* output.push_str("];\n"); std::fs::write(..): the array has lines.len() entries
WriteOutput ==
    /\ pc = "format"
    /\ Len(COORDINATES) = Len(lines)
    /\ pc' = "built"
    /\ UNCHANGED <<exit, viewport, last_mouse_drag_position, event, start, steps,
                   drags, gesture, build_vars, painter, origin>>

InitBuild ==
    /\ exit = FALSE
    /\ viewport = Default
    /\ last_mouse_drag_position = None
    /\ pc = "open"
    /\ event = NoEvent
    /\ start = Default
    /\ steps = 0
    /\ drags = 0
    /\ gesture = 0
    /\ file \in Files
    /\ lines = <<>>
    /\ COORDINATES = <<>>
    /\ painter = NoPainter
    /\ origin = NoOrigin

NextBuild == OpenFile \/ OpenFails \/ ReadLines \/ FormatLine \/ WriteOutput

SpecBuild == InitBuild /\ [][NextBuild]_vars

\* a line that shows nothing: no token but white space
IsBlank(line) == \A i \in 1..Len(line) : line[i] = Ws

\* a record: at least two fields, the first two numbers
IsRecord(line) ==
    /\ Len(split_whitespace(line)) >= 2
    /\ Parses(split_whitespace(line)[1])
    /\ Parses(split_whitespace(line)[2])

NonBlank(ls) == SelectSeq(ls, LAMBDA l : ~IsBlank(l))

\* the point a record yields
PointOf(line) ==
    <<Format10(parse(split_whitespace(line)[1])),
      Format10(parse(split_whitespace(line)[2]))>>

\* C14: loading a file of records with blank lines among them yields a
\* dataset with one point for each non-blank line, in the order of the file.
C14_BlankLinesIgnored ==
    (/\ pc \in {"format", "built", "panicked"}
     /\ \A i \in 1..Len(file) : IsBlank(file[i]) \/ IsRecord(file[i]))
    => /\ pc # "panicked"
       /\ pc = "built" =>
            /\ Len(COORDINATES) = Len(NonBlank(file))
            /\ \A k \in 1..Len(COORDINATES) : COORDINATES[k] = PointOf(NonBlank(file)[k])

\* the same with blank read as empty: no character at all
C14_EmptyLinesIgnored ==
    (/\ pc \in {"format", "built", "panicked"}
     /\ \A i \in 1..Len(file) : is_empty(file[i]) \/ IsRecord(file[i]))
    => /\ pc # "panicked"
       /\ pc = "built" =>
            /\ Len(COORDINATES) = Len(Filter(file))
            /\ \A k \in 1..Len(COORDINATES) : COORDINATES[k] = PointOf(Filter(file)[k])

(***************************************************************************)
(* Drag gestures, begun from a viewport the program can have reached.      *)
(* origin follows the gesture under way: it is set by the first left-drag  *)
(* after a button-up (or after the start) and cleared by a button-up.      *)
(***************************************************************************)
\* five cells are one map unit: f64::from(5 * k) * 0.2 is k
CellsPerUnit == 5

GestureCells == Cells \cup {<<60, 30>>}

GestureEvents ==
    {Mouse("Drag", "Left", c[1], c[2]) : c \in GestureCells}
    \cup {Mouse("Up", "Left", 50, 20), Mouse("ScrollUp", "None", 50, 20), KeyPress("s")}

\* the drag from <<column, row>> to the cell of ev moves by whole map units
WholeUnits(column, row, ev) ==
    /\ (ev.column - column) % CellsPerUnit = 0
    /\ (ev.row - row) % CellsPerUnit = 0

\* origin after the event ev has been handled
OriginAfter(ev) ==
    IF IsButtonUp(ev) THEN [NoOrigin EXCEPT !.fractional = origin.fractional]
    ELSE IF IsLeftDrag(ev) THEN
        IF last_mouse_drag_position = None
        THEN [position |-> Some(ev.column, ev.row), viewport |-> viewport, whole |-> TRUE,
              fractional |-> origin.fractional]
        ELSE IF WholeUnits(last_mouse_drag_position[1], last_mouse_drag_position[2], ev)
        THEN origin
        ELSE [origin EXCEPT !.whole = FALSE, !.fractional = @ + 1]
    ELSE IF origin.position = None THEN origin
    ELSE [origin EXCEPT !.viewport =
            handle_events([App EXCEPT !.viewport = origin.viewport], ev).viewport]

\* self.handle_events()?, event::read() returning ev, the gesture followed
HandleGestureEvents ==
    /\ pc = "events"
    /\ \E ev \in GestureEvents :
        /\ event' = ev
        /\ SetApp(handle_events(App, ev))
        /\ drags' = IF IsLeftDrag(ev) THEN drags + 1 ELSE drags
        /\ gesture' = IF IsLeftDrag(ev) THEN gesture + 1
                      ELSE IF IsButtonUp(ev) THEN 0 ELSE gesture
        /\ origin' = OriginAfter(ev)
    /\ drags' <= MaxDrags + 1
    /\ viewport' = viewport \/ InWindow(viewport', MaxZoom, MaxZoom)
    /\ pc' = "loop"
    /\ UNCHANGED <<start, steps, build_vars, painter>>

InitDrag ==
    /\ exit = FALSE
    /\ viewport \in StartViewports
    /\ last_mouse_drag_position = None
    /\ pc = "loop"
    /\ event = NoEvent
    /\ start = viewport
    /\ steps = 0
    /\ drags = 0
    /\ gesture = 0
    /\ Idle

NextDrag ==
    \/ RunLoop
    \/ Draw
    \/ DrawFails
    \/ ReadFails
    \/ HandleGestureEvents

SpecDrag == InitDrag /\ [][NextDrag]_vars

\* what the claim says a left-drag to the cell of ev does to the viewport v
\* when <<c0, r0>> is recorded
Translated(v, c0, r0, ev) ==
    Viewport(FSub(v.min_x, TimesPoint2(ev.column - c0)),
             FSub(v.max_x, TimesPoint2(ev.column - c0)),
             FAdd(v.min_y, TimesPoint2(ev.row - r0)),
             FAdd(v.max_y, TimesPoint2(ev.row - r0)))

\* C15, as claimed: with (c0, r0) recorded, a left-drag at (c1, r1)
\* subtracts 0.2 * (c1 - c0) from min_x and max_x, adds 0.2 * (r1 - r0) to
\* min_y and max_y and records (c1, r1); the width and the height of the
\* viewport are unchanged.
C15_DragTranslates ==
    [][Handled /\ IsLeftDrag(event') /\ last_mouse_drag_position # None =>
            /\ viewport' = Translated(viewport, last_mouse_drag_position[1],
                                      last_mouse_drag_position[2], event')
            /\ last_mouse_drag_position' = Some(event'.column, event'.row)
            /\ Width(viewport') = Width(viewport)
            /\ Height(viewport') = Height(viewport)]_vars

\* C15, amended: the same, the width and the height unchanged when the
\* bounds are integers and the drag moves by whole map units.
C15_DragTranslatesWholeUnits ==
    [][Handled /\ IsLeftDrag(event') /\ last_mouse_drag_position # None =>
            /\ viewport' = Translated(viewport, last_mouse_drag_position[1],
                                      last_mouse_drag_position[2], event')
            /\ last_mouse_drag_position' = Some(event'.column, event'.row)
            /\ (Integral(viewport) /\ WholeUnits(last_mouse_drag_position[1],
                                                 last_mouse_drag_position[2], event')) =>
                    /\ Width(viewport') = Width(viewport)
                    /\ Height(viewport') = Height(viewport)
                    /\ ExactWidth(viewport') = ExactWidth(viewport)
                    /\ ExactHeight(viewport') = ExactHeight(viewport)]_vars

\* a drag from (50, 20) to (55, 25) has moved {-100, 100, -50, 50} by -1 and +1
C15_Witness ==
    /\ pc = "loop"
    /\ event = Mouse("Drag", "Left", 55, 25)
    /\ start = ZoomedIn
    /\ viewport = Viewport(F(-101), F(99), F(-49), F(51))
    /\ last_mouse_drag_position = Some(55, 25)

\* twice the height, exactly
TwiceExactHeight(v) == ExactAdd(ExactHeight(v), ExactHeight(v))

\* C16, as claimed: in every state reached from the default viewport the
\* width is exactly twice the height: (max_x - min_x) = 2 * (max_y - min_y).
C16_AspectRatio ==
    /\ Width(viewport) = FAdd(Height(viewport), Height(viewport))
    /\ ExactWidth(viewport) = TwiceExactHeight(viewport)

\* C16, amended: the width is exactly twice the height in every state
\* reached from the default viewport by key presses, scrolls, button events
\* and left-drags that each moved by a whole number of map units.
C16_AspectRatioWholeUnits ==
    (Integral(start) /\ origin.fractional = 0) =>
        /\ Width(viewport) = FAdd(Height(viewport), Height(viewport))
        /\ ExactWidth(viewport) = TwiceExactHeight(viewport)

\* from the default viewport: a zoom-in and a drag of one map unit each way
C16_Witness ==
    /\ start = Default
    /\ origin.fractional = 0
    /\ gesture = 2
    /\ viewport = Viewport(F(-179), F(177), F(-88), F(90))

\* min_x + max_x and min_y + max_y, as f64 and exactly
CentreX(v) == FAdd(v.min_x, v.max_x)
CentreY(v) == FAdd(v.min_y, v.max_y)
ExactCentreX(v) == ExactAdd(v.min_x, v.max_x)
ExactCentreY(v) == ExactAdd(v.min_y, v.max_y)

ScrollUp == Mouse("ScrollUp", "None", 50, 20)
ScrollDown == Mouse("ScrollDown", "None", 50, 20)

\* C18: whether or not a drag position is recorded, a scroll-up changes the
\* viewport exactly as a press of Up does, by zoom(1), and a scroll-down
\* exactly as a press of Down does, by zoom(-1); none of the four changes
\* the recorded drag position or the exit flag.
C18_ScrollIsZoomKey ==
    [][/\ Handled /\ event' \in {ScrollUp, KeyPress("Up")} =>
            /\ viewport' = zoom(viewport, 1)
            /\ viewport' = handle_events(App, ScrollUp).viewport
            /\ viewport' = handle_events(App, KeyPress("Up")).viewport
            /\ UNCHANGED <<last_mouse_drag_position, exit>>
       /\ Handled /\ event' \in {ScrollDown, KeyPress("Down")} =>
            /\ viewport' = zoom(viewport, -1)
            /\ viewport' = handle_events(App, ScrollDown).viewport
            /\ viewport' = handle_events(App, KeyPress("Down")).viewport
            /\ UNCHANGED <<last_mouse_drag_position, exit>>]_vars

\* a scroll-down handled in the middle of a drag
C18_Witness ==
    /\ pc = "loop"
    /\ event = ScrollDown
    /\ last_mouse_drag_position = Some(55, 25)
    /\ viewport = Viewport(F(-182), F(182), F(-91), F(91))

\* C19: when drawing a frame or reading the next event fails, App::run
\* returns the error at once: no draw and no read follows, and the failed
\* iteration leaves the viewport, the exit flag and the drag position as
\* they were.
C19_FailureStopsLoop ==
    [][/\ pc' = "err" /\ pc # "err" =>
            /\ pc \in {"draw", "events"}
            /\ UNCHANGED <<viewport, exit, last_mouse_drag_position>>
       /\ pc = "err" => pc' \notin {"loop", "draw", "events"}]_vars

\* a read has failed after the view was moved and a drag begun
C19_Witness ==
    /\ pc = "err"
    /\ viewport # Default
    /\ last_mouse_drag_position # None
    /\ ~exit

\* the viewport a single drag from the first position of the gesture to the
\* position p would have made of the gesture's viewport
Direct(o, p) ==
    Translated(o.viewport, o.position[1], o.position[2], [column |-> p[1], row |-> p[2]])

IsKeyOrScroll(ev) ==
    \/ ev.type = "Key"
    \/ ev.type = "Mouse" /\ ev.kind \in {"ScrollUp", "ScrollDown"}

\* C20, as claimed: within one drag gesture the drags have moved the x
\* bounds by -0.2 * (c_last - c_first) and the y bounds by
\* +0.2 * (r_last - r_first), whatever the positions in between, and a key
\* press or a scroll during the gesture leaves the recorded position.
C20_GestureHasNoDrift ==
    [][/\ origin'.position # None =>
            viewport' = Direct(origin', last_mouse_drag_position')
       /\ Handled /\ IsKeyOrScroll(event') =>
            last_mouse_drag_position' = last_mouse_drag_position]_vars

\* C20, amended: the same for a gesture begun at a viewport with integer
\* bounds, each of its drags moving by a whole number of map units.
C20_WholeGestureHasNoDrift ==
    [][/\ (origin'.position # None /\ origin'.whole /\ Integral(origin'.viewport)) =>
            viewport' = Direct(origin', last_mouse_drag_position')
       /\ Handled /\ IsKeyOrScroll(event') =>
            last_mouse_drag_position' = last_mouse_drag_position]_vars

\* a gesture from (55, 25) through (60, 30) to (50, 20)
C20_Witness ==
    /\ pc = "loop"
    /\ start = Default
    /\ gesture = 3
    /\ origin.position = Some(55, 25)
    /\ origin.whole
    /\ event = Mouse("Drag", "Left", 50, 20)
    /\ last_mouse_drag_position = Some(50, 20)
    /\ viewport = Viewport(F(-179), F(181), F(-91), F(89))

====
